---- MODULE Spec2Model ----
(***************************************************************************)
(* Session tokens and the role gate of rbac-ucms.                          *)
(*                                                                         *)
(*   utils/authorization.py : generate_jwt, verify_jwt, logout over a      *)
(*                            Redis allow-list keyed by the token string   *)
(*   utils/decorator.py     : role_required(required_role) wrapper         *)
(*                                                                         *)
(* Time is counted in clock ticks, TicksPerSecond ticks to a second, so    *)
(* that two calls can fall at different instants of one clock second.      *)
(* A token string is the triple <<alg, payload, signature>>; every other   *)
(* string a client can send is a tuple of another length.                  *)
(***************************************************************************)
EXTENDS Integers, Sequences, FiniteSets, Bags, TLC

\* ---------------------------------------------------------------- bounds
TicksPerSecond == 2
MaxAdvances == 2
MaxSessions == 2

\* ------------------------------------------------------------- constants
\* r.setex(token_str, 10800, user_id)
StoreTTL == 10800
\* datetime.timedelta(days=2), in seconds
TokenLifetime == 172800

SECRET_KEY == "SECRET_KEY"
AttackerKey == "other_key"

\* users.role_name: CHECK (role_name IN ('student', 'lecturer', 'admin'))
Roles == {"student", "lecturer", "admin"}

\* the rows of users (user_id VARCHAR(36), role_name): the arguments the
\* three login functions hand to generate_jwt
Accounts == {[user_id |-> "U1", role |-> "student"],
             [user_id |-> "U2", role |-> "lecturer"],
             [user_id |-> "U3", role |-> "admin"]}

VARIABLES now, advances, store, sessions, last, race, outbox, accepted,
          users, db, build

vars == <<now, advances, store, sessions, last, race, outbox, accepted,
          users, db, build>>

\* race: a verify_jwt call taken command by command, next to logouts
\* outbox, accepted: the one-time codes mailed and the pairs verify_otp
\* has accepted
\* users: the role_name column of the users table, by user_id
\* db: the password, is_active and is_verified columns of users and
\* students.is_suspended, by user_id
\* build: the bcrypt release the application runs on
aux == <<race, outbox, accepted, users, db, build>>

\* the table as the three sign-up functions fill it
UsersTable == [u \in {a.user_id : a \in Accounts} |->
                  (CHOOSE a \in Accounts : a.user_id = u).role]

\* ------------------------------------------------------------ passwords
\* bcrypt works on the first 72 bytes of a password
BcryptMaxBytes == 72

\* releases before 5.0 cut a longer password off silently, later ones
\* raise ValueError
BcryptBuilds == {"truncates", "rejects"}

\* a password of BcryptMaxBytes + 1 characters ending in c
Long(c) == [i \in 1..(BcryptMaxBytes + 1) |->
               IF i <= BcryptMaxBytes THEN "a" ELSE c]

Passwords == {<<"p">>, <<"q">>, Long("x"), Long("y")}

\* bcrypt.gensalt(): 16 random bytes
Salts == {"salt1", "salt2"}

\* a digest string: salt_ok says whether its first 29 characters are a
\* bcrypt salt ("$2b$12$" and 22 characters), rest is what follows them
Digest(salt_ok, salt, rest) ==
    [salt_ok |-> salt_ok, salt |-> salt, rest |-> rest]

BcryptResult(raised, digest) == [raised |-> raised, digest |-> digest]

NoDigest == Digest(FALSE, "", <<>>)

Truncate(password) ==
    SubSeq(password, 1,
           IF Len(password) < BcryptMaxBytes
           THEN Len(password) ELSE BcryptMaxBytes)

\* bcrypt.hashpw(password, salt); the hash of different (salt, key) pairs
\* is taken to differ
bcrypt_hashpw(password, salt_ok, salt) ==
    IF ~salt_ok
    THEN BcryptResult(TRUE, NoDigest)
    ELSE IF Len(password) > BcryptMaxBytes /\ build = "rejects"
    THEN BcryptResult(TRUE, NoDigest)
    ELSE BcryptResult(FALSE, Digest(TRUE, salt, <<salt, Truncate(password)>>))

\* hash_password(password), gensalt having returned salt
hash_password(password, salt) == bcrypt_hashpw(password, TRUE, salt)

CheckResult(raised, value) == [raised |-> raised, value |-> value]

\* variant: an exception of bcrypt is turned into False
verify_hash_password_Catches(password, hashed_password) ==
    LET r == bcrypt_hashpw(password, hashed_password.salt_ok,
                           hashed_password.salt)
    IN  IF r.raised
        THEN CheckResult(FALSE, FALSE)
        ELSE CheckResult(FALSE, r.digest = hashed_password)

\* variant: only the salt is compared
verify_hash_password_SaltOnly(password, hashed_password) ==
    LET r == bcrypt_hashpw(password, hashed_password.salt_ok,
                           hashed_password.salt)
    IN  IF r.raised
        THEN CheckResult(TRUE, FALSE)
        ELSE CheckResult(FALSE, r.digest.salt = hashed_password.salt)

\* verify_hash_password(password, hashed_password): bcrypt.checkpw hashes
\* password with the salt of hashed_password and compares the two digests
verify_hash_password(password, hashed_password) ==
    LET r == bcrypt_hashpw(password, hashed_password.salt_ok,
                           hashed_password.salt)
    IN  IF r.raised
        THEN CheckResult(TRUE, FALSE)
        ELSE CheckResult(FALSE, r.digest = hashed_password)

\* the password each account signed up with
SignUpPassword == <<"p">>

\* plain is not a column: it records the password the digest was made of
Row(password, plain, is_active, is_verified, is_suspended) ==
    [password |-> password, plain |-> plain, is_active |-> is_active,
     is_verified |-> is_verified, is_suspended |-> is_suspended]

\* the rows create_student, create_lecturer and create_admin insert
SignedUp == [u \in {a.user_id : a \in Accounts} |->
                Row(Digest(TRUE, "salt1", <<"salt1", SignUpPassword>>),
                    SignUpPassword, TRUE, FALSE, FALSE)]

\* users.email (UNIQUE), students.matric_no, lecturers.staff_id and
\* admins.admin_id of the accounts
EmailOf == [u \in {"U1", "U2", "U3"} |->
               CASE u = "U1" -> "a@b.com"
                 [] u = "U2" -> "c@d.com"
                 [] OTHER -> "e@f.com"]

StudentsTable == [m \in {"M1"} |-> "U1"]
LecturersTable == [m \in {"S2"} |-> "U2"]
AdminsTable == [m \in {"A3"} |-> "U3"]

\* the identifiers a client can put into a request
Identifiers == {"M1", "S2", "A3", "X9"}

\* ------------------------------------------------------- the JWT library
\* HMAC-SHA256 over the payload: equal exactly for equal key and payload
HS256(key, payload) == <<key, payload.user_id, payload.role, payload.exp>>

\* jwt.encode(payload, key, algorithm="HS256"); a datetime exp is written
\* as whole seconds since the epoch
jwt_encode(payload, key) == <<"HS256", payload, HS256(key, payload)>>

NoPayload == [user_id |-> "", role |-> "", exp |-> 0]

\* jwt.decode(token, key, algorithms=["HS256"]) at clock reading t
jwt_decode(token, key, t) ==
    IF Len(token) # 3
    THEN [error |-> "DecodeError", payload |-> NoPayload]
    ELSE IF token[3] # HS256(key, token[2])
    THEN [error |-> "InvalidSignatureError", payload |-> NoPayload]
    ELSE IF token[2].exp * TicksPerSecond <= t
    THEN [error |-> "ExpiredSignatureError", payload |-> NoPayload]
    ELSE [error |-> "", payload |-> token[2]]

\* variant: the exp claim is the issue time itself
ExpClaim_NoLifetime(t) == t \div TicksPerSecond

\* datetime.datetime.utcnow() + datetime.timedelta(days=2), as the exp claim
ExpClaim(t) == (t \div TicksPerSecond) + TokenLifetime

\* ------------------------------------------------------- the Redis store
\* variant: the entry is kept for twice the token lifetime, whatever ttl
r_setex_LongTTL(s, key, ttl, value, t) ==
    [k \in (DOMAIN s) \cup {key} |->
        IF k = key
        THEN [value |-> value,
              expire_at |-> t + 2 * TokenLifetime * TicksPerSecond]
        ELSE s[k]]

\* r.setex(key, ttl, value)
r_setex(s, key, ttl, value, t) ==
    [k \in (DOMAIN s) \cup {key} |->
        IF k = key
        THEN [value |-> value, expire_at |-> t + ttl * TicksPerSecond]
        ELSE s[k]]

\* variant: the delete empties the store
r_delete_All(s, key) == [k \in {} |-> s[k]]

\* variant: the delete leaves the key in place
r_delete_Keep(s, key) == s

\* r.delete(key)
r_delete(s, key) == [k \in (DOMAIN s) \ {key} |-> s[k]]

\* key expiry performed by the store as time passes
r_expire(s, t) == [k \in {x \in DOMAIN s : s[x].expire_at > t} |-> s[k]]

\* Every command is one round trip to the Redis server; store_ok says
\* whether the server answers it, and redis.ConnectionError is raised
\* when it does not.

\* r.get(key): the value, or "" for the nil reply
r_get(s, key) == IF key \in DOMAIN s THEN s[key].value ELSE ""
r_has(s, key) == key \in DOMAIN s

\* ----------------------------------------------------------- verify_jwt
\* result kinds: "payload" (returned the payload), "None" (returned None),
\* "raise" (an exception other than the two caught ones left the function)
VerifyResult(kind, payload, reads) ==
    [kind |-> kind, payload |-> payload, store_reads |-> reads]

\* variant: ExpiredSignatureError is not caught
verify_jwt_ExpiredRaises(token, store_ok) ==
    LET d == jwt_decode(token, SECRET_KEY, now) IN
    IF d.error = "ExpiredSignatureError"
    THEN VerifyResult("raise", NoPayload, 0)
    ELSE IF d.error # ""
    THEN VerifyResult("None", NoPayload, 0)
    ELSE IF ~store_ok
    THEN VerifyResult("raise", NoPayload, 1)
    ELSE IF r_has(store, token) /\ r_get(store, token) = d.payload.user_id
    THEN VerifyResult("payload", d.payload, 1)
    ELSE VerifyResult("None", NoPayload, 1)

\* variant: the decoded payload is returned without the store lookup
verify_jwt_NoStoreCheck(token, store_ok) ==
    LET d == jwt_decode(token, SECRET_KEY, now) IN
    IF d.error # ""
    THEN VerifyResult("None", NoPayload, 0)
    ELSE VerifyResult("payload", d.payload, 0)

verify_jwt(token, store_ok) ==
    LET d == jwt_decode(token, SECRET_KEY, now) IN
    IF d.error # ""
    THEN VerifyResult("None", NoPayload, 0)
    ELSE IF ~store_ok
    THEN VerifyResult("raise", NoPayload, 1)
    ELSE IF r_has(store, token) /\ r_get(store, token) = d.payload.user_id
    THEN VerifyResult("payload", d.payload, 1)
    ELSE VerifyResult("None", NoPayload, 1)

NotCalled == VerifyResult("not_called", NoPayload, 0)

\* variant: a token found in the store gets a fresh TTL
verify_jwt_store_Renew(s, token, t) ==
    IF token \in DOMAIN s
    THEN r_setex(s, token, StoreTTL, s[token].value, t)
    ELSE s

\* the store after verify_jwt(token): r.get is the only command it sends
verify_jwt_store(s, token, t) == s

\* -------------------------------------------------------- role_required
NoHeader == [present |-> FALSE, parts |-> <<>>]
Header(parts) == [present |-> TRUE, parts |-> parts]

\* `not header`: the header is missing or the empty string
HeaderFalsy(header) == ~header.present \/ header.parts = <<"">>

\* variant: any scheme word is accepted
StartsWithBearer_AnyScheme(header) ==
    /\ header.present
    /\ Len(header.parts) >= 2

\* header.startswith("Bearer "), on the header split at single spaces
StartsWithBearer(header) ==
    /\ header.present
    /\ Len(header.parts) >= 2
    /\ header.parts[1] = "Bearer"

\* header.split(" ")[1]
SplitToken(header) == header.parts[2]

Response(outcome, status, body, v, executed, role_arg, token) ==
    [outcome |-> outcome, status |-> status, body |-> body,
     verify_calls |-> IF v.kind = "not_called" THEN 0 ELSE 1,
     verified |-> v, executed |-> executed, role_arg |-> role_arg,
     token |-> token]

\* variant: no except clause, an exception leaves the wrapper
wrapper_Propagates(required_role, header, store_ok, func_raises) ==
    IF HeaderFalsy(header) \/ ~StartsWithBearer(header)
    THEN Response("Unauthorized", 401, "Missing or Invalid token",
                  NotCalled, FALSE, "", <<>>)
    ELSE LET token == SplitToken(header)
             v == verify_jwt(token, store_ok)
         IN  IF v.kind = "raise"
             THEN Response("raise", 0, "", v, FALSE, "", token)
             ELSE IF v.kind = "None"
             THEN Response("Unauthorized", 401, "Invalid or expired token",
                           v, FALSE, "", token)
             ELSE IF v.payload.role # required_role
             THEN Response("Forbidden", 403, "Access denied",
                           v, FALSE, "", token)
             ELSE IF func_raises
             THEN Response("raise", 0, "", v, TRUE, v.payload.role, token)
             ELSE Response("proceed", 200, "", v, TRUE, v.payload.role, token)

\* variant: the role of the payload is not compared with required_role
wrapper_NoRoleCheck(required_role, header, store_ok, func_raises) ==
    IF HeaderFalsy(header) \/ ~StartsWithBearer(header)
    THEN Response("Unauthorized", 401, "Missing or Invalid token",
                  NotCalled, FALSE, "", <<>>)
    ELSE LET token == SplitToken(header)
             v == verify_jwt(token, store_ok)
         IN  IF v.kind = "raise"
             THEN Response("None", 0, "", v, FALSE, "", token)
             ELSE IF v.kind = "None"
             THEN Response("Unauthorized", 401, "Invalid or expired token",
                           v, FALSE, "", token)
             ELSE IF func_raises
             THEN Response("None", 0, "", v, TRUE, v.payload.role, token)
             ELSE Response("proceed", 200, "", v, TRUE, v.payload.role, token)

\* variant: a token that does not verify is answered "Access denied"
wrapper_DeniedWhenInvalid(required_role, header, store_ok, func_raises) ==
    IF HeaderFalsy(header) \/ ~StartsWithBearer(header)
    THEN Response("Unauthorized", 401, "Missing or Invalid token",
                  NotCalled, FALSE, "", <<>>)
    ELSE LET token == SplitToken(header)
             v == verify_jwt(token, store_ok)
         IN  IF v.kind = "raise"
             THEN Response("None", 0, "", v, FALSE, "", token)
             ELSE IF v.kind = "None" \/ v.payload.role # required_role
             THEN Response("Forbidden", 403, "Access denied",
                           v, FALSE, "", token)
             ELSE IF func_raises
             THEN Response("None", 0, "", v, TRUE, v.payload.role, token)
             ELSE Response("proceed", 200, "", v, TRUE, v.payload.role, token)

\* wrapper(*args, **kwargs) for one request; func_raises says whether the
\* wrapped operation raises when it is run
wrapper(required_role, header, store_ok, func_raises) ==
    IF HeaderFalsy(header) \/ ~StartsWithBearer(header)
    THEN Response("Unauthorized", 401, "Missing or Invalid token",
                  NotCalled, FALSE, "", <<>>)
    ELSE LET token == SplitToken(header)
             v == verify_jwt(token, store_ok)
         IN  IF v.kind = "raise"
             THEN Response("None", 0, "", v, FALSE, "", token)
             ELSE IF v.kind = "None"
             THEN Response("Unauthorized", 401, "Invalid or expired token",
                           v, FALSE, "", token)
             ELSE IF v.payload.role # required_role
             THEN Response("Forbidden", 403, "Access denied",
                           v, FALSE, "", token)
             ELSE IF func_raises
             THEN Response("None", 0, "", v, TRUE, v.payload.role, token)
             ELSE Response("proceed", 200, "", v, TRUE, v.payload.role, token)

\* variant: the role is looked up in the users table
role_required_DbRole(required_role, header, store_ok, func_raises, table) ==
    LET resp == wrapper(required_role, header, store_ok, func_raises)
        v == resp.verified
    IN  IF v.kind # "payload"
        THEN resp
        ELSE IF table[v.payload.user_id] # required_role
        THEN Response("Forbidden", 403, "Access denied",
                      v, FALSE, "", resp.token)
        ELSE IF func_raises
        THEN Response("None", 0, "", v, TRUE,
                      table[v.payload.user_id], resp.token)
        ELSE Response("proceed", 200, "", v, TRUE,
                      table[v.payload.user_id], resp.token)

\* role_required(required_role) answering a request while the users table
\* holds `table`: wrapper and verify_jwt run no query, the role compared
\* and handed on is payload.get("role")
role_required(required_role, header, store_ok, func_raises, table) ==
    wrapper(required_role, header, store_ok, func_raises)

\* ------------------------------------------ verify_jwt, command by command
\* payload = jwt.decode(token, SECRET_KEY, algorithms=["HS256"])
verify_jwt_decode(token, t) == jwt_decode(token, SECRET_KEY, t)

\* variant: the payload decoded earlier is returned, the reply is not used
verify_jwt_lookup_Stale(s, token, payload, store_ok) ==
    IF ~store_ok
    THEN VerifyResult("raise", NoPayload, 1)
    ELSE VerifyResult("payload", payload, 1)

\* if r.get(token) == user_id: return payload / else: return None
verify_jwt_lookup(s, token, payload, store_ok) ==
    IF ~store_ok
    THEN VerifyResult("raise", NoPayload, 1)
    ELSE IF r_has(s, token) /\ r_get(s, token) = payload.user_id
    THEN VerifyResult("payload", payload, 1)
    ELSE VerifyResult("None", NoPayload, 1)

\* pc: "idle", "decoded" (between jwt.decode and r.get), "done"
\* deleted: the tokens whose r.delete has completed
NoRace ==
    [pc |-> "idle", token |-> <<>>, payload |-> NoPayload,
     result |-> NotCalled, store_ok |-> TRUE, deleted |-> {},
     deleted_in_flight |-> FALSE, read_after_delete |-> FALSE]

\* ------------------------------------------------------- one-time codes
\* pyotp.TOTP(user_secret, interval=180, digits=6)
OtpInterval == 180
\* totp.verify(otp, valid_window=1)
ValidWindow == 1

general_secret == "OTP_SECRET"
Emails == {"a@b.com", "c@d.com"}

\* base64.b32encode(hmac.new(general_secret, email, sha256).digest())
UserSecret(secret, email) == <<secret, email>>

\* TOTP.timecode(for_time): the number of the 180 s window of the clock
Timecode(t) == (t \div TicksPerSecond) \div OtpInterval

\* TOTP.at(for_time, counter_offset): the 6-digit code of window
\* timecode + counter_offset; codes of different secrets or windows are
\* taken to differ
TotpAt(user_secret, t, counter_offset) ==
    <<user_secret, Timecode(t) + counter_offset>>

\* variant: two windows on either side are tried
TotpVerify_TwoWindows(user_secret, otp, t, valid_window) ==
    \E i \in -2..2 : otp = TotpAt(user_secret, t, i)

\* TOTP.verify(otp, valid_window): for i in range(-valid_window,
\* valid_window + 1), compare otp with at(for_time, i)
TotpVerify(user_secret, otp, t, valid_window) ==
    \E i \in (0 - valid_window)..valid_window :
        otp = TotpAt(user_secret, t, i)

\* variant: valid_window is left at 0
verify_otp_CurrentOnly(email, otp) ==
    TotpVerify(UserSecret(general_secret, email), otp, now, 0)

\* variant: a pair accepted once is not accepted again
verify_otp_SingleUse(email, otp) ==
    /\ TotpVerify(UserSecret(general_secret, email), otp, now, ValidWindow)
    /\ [email |-> email, otp |-> otp] \notin accepted

\* verify_otp(email, otp)
verify_otp(email, otp) ==
    TotpVerify(UserSecret(general_secret, email), otp, now, ValidWindow)

\* the code generate_otp(email) puts into the mail: totp.now()
generate_otp_code(email) == TotpAt(UserSecret(general_secret, email), now, 0)

\* ------------------------------------------------------------- the state
\* the call being answered and what it returns; op = "idle" between calls
NoCall ==
    [op |-> "idle", token |-> <<>>, header |-> NoHeader, required_role |-> "",
     user_id |-> "", role |-> "", raised |-> FALSE,
     resp |-> Response("", 0, "", NotCalled, FALSE, "", <<>>),
     email |-> "", otp |-> <<>>, ok |-> FALSE, again |-> FALSE,
     store_ok |-> FALSE, func_raises |-> FALSE,
     attempts |-> 0, smtp_ok |-> FALSE,
     password |-> <<>>, secret |-> <<>>, digest |-> NoDigest,
     made_by_hash |-> FALSE,
     path |-> "", served |-> "", route_status |-> 0]

Init ==
    /\ now = 0
    /\ advances = 0
    /\ store = [k \in {} |-> [value |-> "", expire_at |-> 0]]
    /\ sessions = EmptyBag
    /\ last = NoCall
    /\ race = NoRace
    /\ outbox = {}
    /\ accepted = {}
    /\ users = UsersTable
    /\ db = SignedUp
    /\ build = "truncates"

Idle == last.op = "idle"

\* ----------------------------------------------------- what clients send
\* sessions: the bag of completed generate_jwt calls, each with its
\* arguments and the token string it returned
IssuedTokens == {s.token : s \in BagToSet(sessions)}

\* a token of the right shape signed with another key
Forged(payload) == jwt_encode(payload, AttackerKey)
\* an issued token whose payload was edited, signature kept
Tampered(t) == <<t[1], [t[2] EXCEPT !.role = "admin", !.user_id = "U2"], t[3]>>

Malformed == {<<>>, <<"junk">>}

ClientTokens ==
    IssuedTokens
      \cup {Tampered(t) : t \in IssuedTokens}
      \cup {Forged([user_id |-> "U1", role |-> "admin", exp |-> ExpClaim(now)])}
      \cup Malformed

\* the Authorization header, split at single spaces
ExactHeader(t) == Header(<<"Bearer", t>>)
ClientHeaders ==
    {NoHeader, Header(<<"">>), Header(<<"Bearer">>), Header(<<"Bearer", <<>>>>)}
      \cup {ExactHeader(t) : t \in ClientTokens}
      \cup {Header(<<"bearer", t>>) : t \in IssuedTokens}
      \cup {Header(<<"Bearer", <<>>, t>>) : t \in IssuedTokens}
      \cup {Header(<<"Bearer", t, <<"extra">>>>) : t \in IssuedTokens}

\* ------------------------------------------------------------ operations
\* generate_jwt(user_id, role)
GenerateJwt(user_id, role, store_ok) ==
    /\ Idle
    /\ BagCardinality(sessions) < MaxSessions
    /\ LET payload == [user_id |-> user_id, role |-> role, exp |-> ExpClaim(now)]
           token_str == jwt_encode(payload, SECRET_KEY)
       IN  IF store_ok
           THEN /\ store' = r_setex(store, token_str, StoreTTL, user_id, now)
                /\ sessions' = sessions (+) SetToBag(
                       {[user_id |-> user_id, role |-> role, token |-> token_str]})
                /\ last' = [NoCall EXCEPT !.op = "generate", !.token = token_str,
                                          !.user_id = user_id, !.role = role]
           ELSE /\ UNCHANGED <<store, sessions>>
                /\ last' = [NoCall EXCEPT !.op = "generate", !.raised = TRUE,
                                          !.user_id = user_id, !.role = role]
    /\ UNCHANGED <<now, advances>>
    /\ UNCHANGED aux

\* verify_jwt(token), called on its own
VerifyJwt(token, store_ok) ==
    /\ Idle
    /\ last' = [NoCall EXCEPT !.op = "verify", !.token = token,
                              !.raised = (verify_jwt(token, store_ok).kind = "raise"),
                              !.resp.verified = verify_jwt(token, store_ok),
                              !.resp.token = token,
                              !.resp.verify_calls = 1]
    /\ store' = verify_jwt_store(store, token, now)
    /\ UNCHANGED <<now, advances, sessions>>
    /\ UNCHANGED aux

\* logout(token)
Logout(token, store_ok) ==
    /\ Idle
    /\ IF store_ok
       THEN /\ store' = r_delete(store, token)
            /\ last' = [NoCall EXCEPT !.op = "logout", !.token = token]
       ELSE /\ UNCHANGED store
            /\ last' = [NoCall EXCEPT !.op = "logout", !.token = token,
                                      !.raised = TRUE]
    /\ UNCHANGED <<now, advances, sessions>>
    /\ UNCHANGED aux

\* one request to a route decorated with @role_required(required_role)
Request(required_role, header, store_ok, func_raises) ==
    /\ Idle
    /\ last' = [NoCall EXCEPT !.op = "request", !.header = header,
                              !.required_role = required_role,
                              !.resp = wrapper(required_role, header,
                                               store_ok, func_raises)]
    /\ store' = IF wrapper(required_role, header, store_ok,
                           func_raises).verify_calls = 1
                THEN verify_jwt_store(store, SplitToken(header), now)
                ELSE store
    /\ UNCHANGED <<now, advances, sessions>>
    /\ UNCHANGED aux

\* the answer of the call is handed to its caller
Return ==
    /\ ~Idle
    /\ last' = NoCall
    /\ UNCHANGED <<now, advances, store, sessions>>
    /\ UNCHANGED aux

\* ----------------------------------------------------------- environment
Steps == {1, StoreTTL * TicksPerSecond, TokenLifetime * TicksPerSecond}

Tick(d) ==
    /\ Idle
    /\ advances < MaxAdvances
    /\ now' = now + d
    /\ advances' = advances + 1
    /\ store' = r_expire(store, now + d)
    /\ UNCHANGED <<sessions, last>>
    /\ UNCHANGED aux

Next ==
    \/ \E a \in Accounts, ok \in BOOLEAN : GenerateJwt(a.user_id, a.role, ok)
    \/ \E t \in ClientTokens, ok \in BOOLEAN : VerifyJwt(t, ok)
    \/ \E t \in ClientTokens, ok \in BOOLEAN : Logout(t, ok)
    \/ \E r \in Roles, h \in ClientHeaders, ok, f \in BOOLEAN :
          Request(r, h, ok, f)
    \/ Return
    \/ \E d \in Steps : Tick(d)

Spec == Init /\ [][Next]_vars

\* ------------------------------------ verify_jwt and logout interleaved
\* the session that generate_jwt(a.user_id, a.role) opens at tick t
SessionAt(a, t) ==
    [user_id |-> a.user_id, role |-> a.role,
     token |-> jwt_encode([user_id |-> a.user_id, role |-> a.role,
                           exp |-> ExpClaim(t)], SECRET_KEY)]

\* the store and the sessions after the accounts of S have logged in at 0
StoreAfterLogins(S) ==
    [k \in {SessionAt(a, 0).token : a \in S} |->
        [value |-> k[2].user_id, expire_at |-> StoreTTL * TicksPerSecond]]

InitRace ==
    /\ now = 0
    /\ advances = 0
    /\ \E S \in SUBSET Accounts :
          /\ store = StoreAfterLogins(S)
          /\ sessions = SetToBag({SessionAt(a, 0) : a \in S})
    /\ last = NoCall
    /\ race = NoRace
    /\ outbox = {}
    /\ accepted = {}
    /\ users = UsersTable
    /\ db = SignedUp
    /\ build = "truncates"

\* verify_jwt(token) up to the return of jwt.decode
RaceDecode(token) ==
    /\ race.pc = "idle"
    /\ LET d == verify_jwt_decode(token, now) IN
       race' = IF d.error # ""
               THEN [race EXCEPT !.pc = "done", !.token = token,
                                 !.payload = NoPayload, !.store_ok = TRUE,
                                 !.result = VerifyResult("None", NoPayload, 0),
                                 !.deleted_in_flight = FALSE,
                                 !.read_after_delete = FALSE]
               ELSE [race EXCEPT !.pc = "decoded", !.token = token,
                                 !.payload = d.payload, !.store_ok = TRUE,
                                 !.result = NotCalled,
                                 !.deleted_in_flight = FALSE,
                                 !.read_after_delete = FALSE]
    /\ UNCHANGED <<now, advances, store, sessions, last, outbox, accepted,
                    users,
                    db, build>>

\* the r.get of verify_jwt and the comparison of its reply
RaceLookup(store_ok) ==
    /\ race.pc = "decoded"
    /\ race' = [race EXCEPT
                  !.pc = "done", !.store_ok = store_ok,
                  !.result = verify_jwt_lookup(store, race.token,
                                               race.payload, store_ok),
                  !.read_after_delete = (race.token \in race.deleted)]
    /\ UNCHANGED <<now, advances, store, sessions, last, outbox, accepted,
                    users,
                    db, build>>

RaceReturn ==
    /\ race.pc = "done"
    /\ race' = [race EXCEPT !.pc = "idle"]
    /\ UNCHANGED <<now, advances, store, sessions, last, outbox, accepted,
                    users,
                    db, build>>

\* logout(token) of another request: one r.delete
RaceLogout(token) ==
    /\ store' = r_delete(store, token)
    /\ race' = [race EXCEPT
                  !.deleted = @ \cup {token},
                  !.deleted_in_flight =
                      @ \/ (race.pc = "decoded" /\ race.token = token)]
    /\ UNCHANGED <<now, advances, sessions, last, outbox, accepted,
                    users,
                    db, build>>

NextRace ==
    \/ \E t \in ClientTokens : RaceDecode(t)
    \/ \E ok \in BOOLEAN : RaceLookup(ok)
    \/ RaceReturn
    \/ \E t \in IssuedTokens : RaceLogout(t)
    \/ \E d \in Steps : Tick(d)

SpecRace == InitRace /\ [][NextRace]_vars

\* --------------------------------------- one-time codes: the operations
MaxWindows == 3
MaxMessages == 2
MaxAccepted == 1
FirstWindow == 1

\* the clock stands at the first or at the last tick of a window
InitOtp ==
    /\ now \in {FirstWindow * OtpInterval * TicksPerSecond,
                (FirstWindow + 1) * OtpInterval * TicksPerSecond - 1}
    /\ advances = 0
    /\ store = [k \in {} |-> [value |-> "", expire_at |-> 0]]
    /\ sessions = EmptyBag
    /\ last = NoCall
    /\ race = NoRace
    /\ outbox = {}
    /\ accepted = {}
    /\ users = UsersTable
    /\ db = SignedUp
    /\ build = "truncates"

\* what one generate_otp call does with the mail server: smtp[i] says
\* whether the server takes the mail at the i-th attempt
SmtpResult(attempts, delivered, raised, status, message) ==
    [attempts |-> attempts, delivered |-> delivered, raised |-> raised,
     status |-> status, message |-> message]

\* variant: a second attempt is made after a failed one
generate_otp_send_Retry(smtp) ==
    IF smtp[1]
    THEN SmtpResult(1, TRUE, FALSE, 200, "email sent, check your mail for otp")
    ELSE IF smtp[2]
    THEN SmtpResult(2, TRUE, FALSE, 200, "email sent, check your mail for otp")
    ELSE SmtpResult(2, FALSE, TRUE, 0, "")

\* variant: a failure of the mail server is swallowed
generate_otp_send_Swallow(smtp) ==
    SmtpResult(1, smtp[1], FALSE, 200, "email sent, check your mail for otp")

\* with smtplib.SMTP(...) as server: starttls, login, sendmail, once and
\* without try/except; then return {"message": "email sent, ..."}, 200
generate_otp_send(smtp) ==
    IF smtp[1]
    THEN SmtpResult(1, TRUE, FALSE, 200, "email sent, check your mail for otp")
    ELSE SmtpResult(1, FALSE, TRUE, 0, "")

SmtpOutcomes == [1..2 -> BOOLEAN]

\* generate_otp(email)
GenerateOtp(email, smtp) ==
    /\ Idle
    /\ Cardinality(outbox) < MaxMessages
    /\ LET sent == generate_otp_send(smtp)
       IN  /\ outbox' = IF sent.delivered
                        THEN outbox \cup
                               {[email |-> email,
                                 otp |-> generate_otp_code(email),
                                 window |-> Timecode(now)]}
                        ELSE outbox
           /\ last' = [NoCall EXCEPT !.op = "generate_otp", !.email = email,
                                     !.otp = IF sent.delivered
                                             THEN generate_otp_code(email)
                                             ELSE <<>>,
                                     !.ok = sent.delivered,
                                     !.raised = sent.raised,
                                     !.resp.status = sent.status,
                                     !.resp.body = sent.message,
                                     !.attempts = sent.attempts,
                                     !.smtp_ok = smtp[1]]
    /\ UNCHANGED <<now, advances, store, sessions, race, accepted, users,
                    db, build>>

\* the codes a client can submit
OtpInputs ==
    {TotpAt(UserSecret(general_secret, e), now, i) : e \in Emails, i \in -2..2}
      \cup {m.otp : m \in outbox}
      \cup {TotpAt(UserSecret("guess", e), now, 0) : e \in Emails}

\* verify_otp(email, otp)
VerifyOtp(email, otp) ==
    /\ Idle
    /\ last' = [NoCall EXCEPT !.op = "verify_otp", !.email = email,
                              !.otp = otp, !.ok = verify_otp(email, otp),
                              !.again = [email |-> email, otp |-> otp]
                                           \in accepted]
    /\ accepted' =
          IF /\ verify_otp(email, otp)
             /\ Cardinality(accepted) < MaxAccepted
          THEN accepted \cup {[email |-> email, otp |-> otp]}
          ELSE accepted
    /\ UNCHANGED <<now, advances, store, sessions, race, outbox, users,
                    db, build>>

\* the clock moves on by one window
OtpTick ==
    /\ Idle
    /\ Timecode(now) < FirstWindow + MaxWindows
    /\ now' = now + OtpInterval * TicksPerSecond
    /\ UNCHANGED <<advances, store, sessions, last, race, outbox, accepted,
                    users,
                    db, build>>

NextOtp ==
    \/ \E e \in Emails, smtp \in SmtpOutcomes : GenerateOtp(e, smtp)
    \/ \E e \in Emails, c \in OtpInputs : VerifyOtp(e, c)
    \/ OtpTick
    \/ Return

SpecOtp == InitOtp /\ [][NextOtp]_vars

\* ------------------------------------ the gate next to the users table
InitGate ==
    /\ now = 0
    /\ advances = 0
    /\ \E S \in SUBSET Accounts :
          /\ store = StoreAfterLogins(S)
          /\ sessions = SetToBag({SessionAt(a, 0) : a \in S})
    /\ last = NoCall
    /\ race = NoRace
    /\ outbox = {}
    /\ accepted = {}
    /\ users = UsersTable
    /\ db = SignedUp
    /\ build = "truncates"

\* an UPDATE of users.role_name made outside the application
RoleNameChanged(user_id, role_name) ==
    /\ Idle
    /\ users[user_id] # role_name
    /\ users' = [users EXCEPT ![user_id] = role_name]
    /\ UNCHANGED <<now, advances, store, sessions, last, race, outbox,
                    accepted, db, build>>

\* one request to a route decorated with @role_required(required_role)
GateRequest(required_role, header, store_ok, func_raises) ==
    /\ Idle
    /\ last' = [NoCall EXCEPT !.op = "gate_request", !.header = header,
                              !.required_role = required_role,
                              !.store_ok = store_ok,
                              !.func_raises = func_raises,
                              !.resp = role_required(required_role, header,
                                           store_ok, func_raises, users)]
    /\ UNCHANGED <<now, advances, store, sessions, race, outbox, accepted,
                    users,
                    db, build>>

GateReturn ==
    /\ ~Idle
    /\ last' = NoCall
    /\ UNCHANGED <<now, advances, store, sessions, race, outbox, accepted,
                    users,
                    db, build>>

\* the rows of students get_student_dashboard can find, with the
\* user_id of each: M1 is the student of Accounts, M4 another student
DashboardRows == [m \in {"M1", "M4"} |-> IF m = "M1" THEN "U1" ELSE "U4"]

\* the matric_no values a client puts into the path
PathValues == {"M1", "M4", "X9"}

DashboardResult(gate, status, served) ==
    [gate |-> gate, status |-> status, served |-> served]

\* variant: only the student the token names is served
dashboard_OwnerOnly(header, matric_no, store_ok) ==
    LET gate == wrapper("student", header, store_ok, FALSE)
    IN  IF gate.outcome # "proceed"
        THEN DashboardResult(gate, gate.status, "")
        ELSE IF matric_no \notin DOMAIN DashboardRows
        THEN DashboardResult(gate, 404, "")
        ELSE IF DashboardRows[matric_no] # gate.verified.payload.user_id
        THEN DashboardResult(
                 [gate EXCEPT !.outcome = "Forbidden", !.status = 403],
                 403, "")
        ELSE DashboardResult(gate, 200, DashboardRows[matric_no])

\* GET /dashboard/<path:matric_no>: @role_required("student"), then
\* get_student_dashboard(matric_no): SELECT ... WHERE matric_no = %s
dashboard(header, matric_no, store_ok) ==
    LET gate == wrapper("student", header, store_ok, FALSE)
    IN  IF gate.outcome # "proceed"
        THEN DashboardResult(gate, gate.status, "")
        ELSE IF matric_no \notin DOMAIN DashboardRows
        THEN DashboardResult(gate, 404, "")
        ELSE DashboardResult(gate, 200, DashboardRows[matric_no])

\* one request to GET /dashboard/<matric_no>
DashboardRequest(header, matric_no, store_ok) ==
    /\ Idle
    /\ LET out == dashboard(header, matric_no, store_ok)
       IN  last' = [NoCall EXCEPT !.op = "dashboard", !.header = header,
                                 !.required_role = "student",
                                 !.store_ok = store_ok,
                                 !.path = matric_no,
                                 !.resp = out.gate,
                                 !.route_status = out.status,
                                 !.served = out.served]
    /\ UNCHANGED <<now, advances, store, sessions>>
    /\ UNCHANGED aux

NextGate ==
    \/ \E u \in DOMAIN users, r \in Roles : RoleNameChanged(u, r)
    \/ \E h \in ClientHeaders, m \in PathValues, ok \in BOOLEAN :
          DashboardRequest(h, m, ok)
    \/ \E r \in Roles, h \in ClientHeaders, ok, f \in BOOLEAN :
          GateRequest(r, h, ok, f)
    \/ GateReturn

SpecGate == InitGate /\ [][NextGate]_vars

\* ----------------------------------------- hash_password, then verify
InitPw ==
    /\ now = 0
    /\ advances = 0
    /\ store = [k \in {} |-> [value |-> "", expire_at |-> 0]]
    /\ sessions = EmptyBag
    /\ last = NoCall
    /\ race = NoRace
    /\ outbox = {}
    /\ accepted = {}
    /\ users = UsersTable
    /\ db = SignedUp
    /\ build \in BcryptBuilds

\* hash_password(password)
HashPassword(password, salt) ==
    /\ Idle
    /\ last' = [NoCall EXCEPT !.op = "hash_password",
                              !.password = password,
                              !.raised = hash_password(password, salt).raised,
                              !.digest = hash_password(password, salt).digest]
    /\ UNCHANGED <<now, advances, store, sessions>>
    /\ UNCHANGED aux

\* the strings that are not what hash_password returned: cut off inside
\* the hash, with a character of the hash changed, cut off inside the
\* salt, or no digest at all
Damaged(d, n) ==
    CASE n = 1 -> Digest(TRUE, d.salt, <<d.salt>>)
      [] n = 2 -> Digest(TRUE, d.salt, <<d.salt, d.rest[2], "changed">>)
      [] n = 3 -> Digest(FALSE, d.salt, <<>>)
      [] OTHER -> Digest(FALSE, "", <<>>)

\* verify_hash_password(password, digest) for the digest just made
VerifyHashPassword(password) ==
    /\ last.op = "hash_password"
    /\ ~last.raised
    /\ last' = [NoCall EXCEPT
          !.op = "verify_hash_password",
          !.password = password,
          !.secret = last.password,
          !.digest = last.digest,
          !.made_by_hash = TRUE,
          !.raised = verify_hash_password(password, last.digest).raised,
          !.ok = verify_hash_password(password, last.digest).value]
    /\ UNCHANGED <<now, advances, store, sessions>>
    /\ UNCHANGED aux

\* verify_hash_password(password, digest) for a damaged digest
VerifyDamaged(password, n) ==
    /\ last.op = "hash_password"
    /\ ~last.raised
    /\ LET digest == Damaged(last.digest, n)
       IN  last' = [NoCall EXCEPT
              !.op = "verify_hash_password",
              !.password = password,
              !.secret = last.password,
              !.digest = digest,
              !.raised = verify_hash_password(password, digest).raised,
              !.ok = verify_hash_password(password, digest).value]
    /\ UNCHANGED <<now, advances, store, sessions>>
    /\ UNCHANGED aux

NextPw ==
    \/ \E p \in Passwords, salt \in Salts : HashPassword(p, salt)
    \/ \E p \in Passwords : VerifyHashPassword(p)
    \/ \E p \in Passwords, n \in 1..4 : VerifyDamaged(p, n)
    \/ Return

SpecPw == InitPw /\ [][NextPw]_vars

\* ------------------------------ verify_account, reset/change password
\* what a model function returns, and the tables after it
Outcome(raised, status, body, d) ==
    [raised |-> raised, status |-> status, body |-> body, db |-> d]

\* UPDATE users SET is_verified = TRUE WHERE email = %s
SetVerified(d, email) ==
    [u \in DOMAIN d |-> IF EmailOf[u] = email
                        THEN [d[u] EXCEPT !.is_verified = TRUE]
                        ELSE d[u]]

\* UPDATE users SET password = %s WHERE email = %s
SetPasswordByEmail(d, email, digest, plain) ==
    [u \in DOMAIN d |-> IF EmailOf[u] = email
                        THEN [d[u] EXCEPT !.password = digest,
                                          !.plain = plain]
                        ELSE d[u]]

\* UPDATE users SET password = %s WHERE user_id = %s
SetPasswordById(d, user_id, digest, plain) ==
    [d EXCEPT ![user_id].password = digest, ![user_id].plain = plain]

\* variant: an expired code gets an answer of its own
student_verify_account_TellsExpired(d, email, otp) ==
    IF verify_otp(email, otp)
    THEN Outcome(FALSE, 200, "account verification successful",
                 SetVerified(d, email))
    ELSE IF \E i \in -4..-2 :
               otp = TotpAt(UserSecret(general_secret, email), now, i)
    THEN Outcome(FALSE, 410, "otp expired", d)
    ELSE Outcome(FALSE, 401, "verification unsuccessful, check your otp", d)

\* student_models.update.verify_account(email, otp)
student_verify_account(d, email, otp) ==
    IF verify_otp(email, otp)
    THEN Outcome(FALSE, 200, "account verification successful",
                 SetVerified(d, email))
    ELSE Outcome(FALSE, 401, "verification unsuccessful, check your otp", d)

\* admin_models.update.verify_account(email, otp)
admin_verify_account(d, email, otp) ==
    IF verify_otp(email, otp)
    THEN Outcome(FALSE, 200, "account verification successful",
                 SetVerified(d, email))
    ELSE Outcome(FALSE, 401, "verification unsuccessful, check your otp", d)

\* lecturer_models.update.verify_account(email, otp)
lecturer_verify_account(d, email, otp) ==
    IF verify_otp(email, otp)
    THEN Outcome(FALSE, 200, "account verification successful",
                 SetVerified(d, email))
    ELSE Outcome(FALSE, 401, "verification unsuccessful, check your otp", d)

\* variant: a pair verify_account has accepted is not taken for a reset
student_reset_password_OwnCode(d, email, password, otp, salt) ==
    LET hashed_pw == hash_password(password, salt)
    IN  IF hashed_pw.raised
        THEN Outcome(TRUE, 0, "", d)
        ELSE IF /\ verify_otp(email, otp)
                /\ [email |-> email, otp |-> otp] \notin accepted
        THEN Outcome(FALSE, 200, "password reset successful",
                     SetPasswordByEmail(d, email, hashed_pw.digest, password))
        ELSE Outcome(FALSE, 401,
                     "verification unsuccessful, check your otp", d)

\* variant: the UPDATE is made before the code is checked
student_reset_password_WritesFirst(d, email, password, otp, salt) ==
    LET hashed_pw == hash_password(password, salt)
    IN  IF hashed_pw.raised
        THEN Outcome(TRUE, 0, "", d)
        ELSE IF verify_otp(email, otp)
        THEN Outcome(FALSE, 200, "password reset successful",
                     SetPasswordByEmail(d, email, hashed_pw.digest, password))
        ELSE Outcome(FALSE, 401,
                     "verification unsuccessful, check your otp",
                     SetPasswordByEmail(d, email, hashed_pw.digest, password))

\* student_models.update.reset_password(email, password, otp)
student_reset_password(d, email, password, otp, salt) ==
    LET hashed_pw == hash_password(password, salt)
    IN  IF hashed_pw.raised
        THEN Outcome(TRUE, 0, "", d)
        ELSE IF verify_otp(email, otp)
        THEN Outcome(FALSE, 200, "password reset successful",
                     SetPasswordByEmail(d, email, hashed_pw.digest, password))
        ELSE Outcome(FALSE, 401,
                     "verification unsuccessful, check your otp", d)

\* admin_models.update.reset_password(email, password, otp)
admin_reset_password(d, email, password, otp, salt) ==
    LET hashed_pw == hash_password(password, salt)
    IN  IF hashed_pw.raised
        THEN Outcome(TRUE, 0, "", d)
        ELSE IF verify_otp(email, otp)
        THEN Outcome(FALSE, 200, "password reset successful",
                     SetPasswordByEmail(d, email, hashed_pw.digest, password))
        ELSE Outcome(FALSE, 401,
                     "verification unsuccessful, check your otp", d)

\* lecturer_models.update.reset_password(email, password, otp)
lecturer_reset_password(d, email, password, otp, salt) ==
    LET hashed_pw == hash_password(password, salt)
    IN  IF hashed_pw.raised
        THEN Outcome(TRUE, 0, "", d)
        ELSE IF verify_otp(email, otp)
        THEN Outcome(FALSE, 200, "password reset successful",
                     SetPasswordByEmail(d, email, hashed_pw.digest, password))
        ELSE Outcome(FALSE, 401,
                     "verification unsuccessful, check your otp", d)

\* student_models.update.change_password(matric_no, current_password,
\* new_password): no try/except, answers without a status
student_change_password(d, matric_no, current_password, new_password, salt) ==
    IF matric_no \notin DOMAIN StudentsTable
    THEN Outcome(FALSE, 0, "Student not found", d)
    ELSE LET user_id == StudentsTable[matric_no]
             check == verify_hash_password(current_password,
                                           d[user_id].password)
             hashed == hash_password(new_password, salt)
         IN  IF check.raised
             THEN Outcome(TRUE, 0, "", d)
             ELSE IF ~check.value
             THEN Outcome(FALSE, 0, "Current password is incorrect", d)
             ELSE IF hashed.raised
             THEN Outcome(TRUE, 0, "", d)
             ELSE Outcome(FALSE, 0, "Password changed successfully",
                          SetPasswordById(d, user_id, hashed.digest,
                                          new_password))

\* admin_models.update.change_password(admin_id, current_password,
\* new_password): no try/except
admin_change_password(d, admin_id, current_password, new_password, salt) ==
    IF admin_id \notin DOMAIN AdminsTable
    THEN Outcome(FALSE, 0, "Student not found", d)
    ELSE LET user_id == AdminsTable[admin_id]
             check == verify_hash_password(current_password,
                                           d[user_id].password)
             hashed == hash_password(new_password, salt)
         IN  IF check.raised
             THEN Outcome(TRUE, 0, "", d)
             ELSE IF ~check.value
             THEN Outcome(FALSE, 403, "Current password is incorrect", d)
             ELSE IF hashed.raised
             THEN Outcome(TRUE, 0, "", d)
             ELSE Outcome(FALSE, 201, "Password changed successfully",
                          SetPasswordById(d, user_id, hashed.digest,
                                          new_password))

\* lecturer_models.update.change_password(staff_id, old_password,
\* new_password): the row is read WHERE is_active = TRUE, every exception
\* is answered 500
lecturer_change_password(d, staff_id, old_password, new_password, salt) ==
    IF staff_id \notin DOMAIN LecturersTable
    THEN Outcome(FALSE, 404, "Lecturer not found", d)
    ELSE LET user_id == LecturersTable[staff_id]
             check == verify_hash_password(old_password, d[user_id].password)
             hashed == hash_password(new_password, salt)
         IN  IF ~d[user_id].is_active
             THEN Outcome(FALSE, 404, "User not found", d)
             ELSE IF check.raised
             THEN Outcome(FALSE, 500, "Internal server error", d)
             ELSE IF ~check.value
             THEN Outcome(FALSE, 403, "Old password is incorrect", d)
             ELSE IF hashed.raised
             THEN Outcome(FALSE, 500, "Internal server error", d)
             ELSE Outcome(FALSE, 200, "Password updated successfully",
                          SetPasswordById(d, user_id, hashed.digest,
                                          new_password))

Modules == {"student", "admin", "lecturer"}

verify_account(module, d, email, otp) ==
    CASE module = "student" -> student_verify_account(d, email, otp)
      [] module = "admin" -> admin_verify_account(d, email, otp)
      [] OTHER -> lecturer_verify_account(d, email, otp)

reset_password(module, d, email, password, otp, salt) ==
    CASE module = "student" ->
             student_reset_password(d, email, password, otp, salt)
      [] module = "admin" ->
             admin_reset_password(d, email, password, otp, salt)
      [] OTHER -> lecturer_reset_password(d, email, password, otp, salt)

change_password(module, d, ident, current, new, salt) ==
    CASE module = "student" ->
             student_change_password(d, ident, current, new, salt)
      [] module = "admin" ->
             admin_change_password(d, ident, current, new, salt)
      [] OTHER -> lecturer_change_password(d, ident, current, new, salt)

\* the passwords and the salt used for replacements
NewPasswords == {<<"q">>, Long("x")}
NewSalt == "salt2"

InitCred ==
    /\ now \in {FirstWindow * OtpInterval * TicksPerSecond,
                (FirstWindow + 1) * OtpInterval * TicksPerSecond - 1}
    /\ advances = 0
    /\ store = [k \in {} |-> [value |-> "", expire_at |-> 0]]
    /\ sessions = EmptyBag
    /\ last = NoCall
    /\ race = NoRace
    /\ outbox = {}
    /\ accepted = {}
    /\ users = UsersTable
    /\ db = SignedUp
    /\ build \in BcryptBuilds

\* the codes a client submits, and why one of them is not accepted
CodeCases == {"valid", "expired", "other_address", "wrong"}

CodeOfCase(email, c) ==
    CASE c = "valid" -> TotpAt(UserSecret(general_secret, email), now, 0)
      [] c = "expired" -> TotpAt(UserSecret(general_secret, email), now, -2)
      [] c = "other_address" ->
             TotpAt(UserSecret(general_secret,
                               CHOOSE e \in Emails : e # email), now, 0)
      [] OTHER -> TotpAt(UserSecret("guess", email), now, 0)

\* verify_account(email, otp) of one of the three modules
VerifyAccount(module, email, c) ==
    /\ Idle
    /\ LET otp == CodeOfCase(email, c)
           out == verify_account(module, db, email, otp)
       IN  /\ db' = out.db
           /\ last' = [NoCall EXCEPT !.op = "verify_account",
                          !.role = module, !.email = email, !.otp = otp,
                          !.token = <<c>>,
                          !.ok = verify_otp(email, otp),
                          !.raised = out.raised,
                          !.resp.status = out.status,
                          !.resp.body = out.body]
           /\ accepted' =
                 IF out.status = 200 /\ Cardinality(accepted) < MaxAccepted
                 THEN accepted \cup {[email |-> email, otp |-> otp]}
                 ELSE accepted
    /\ UNCHANGED <<now, advances, store, sessions, race, outbox, users, build>>

\* reset_password(email, password, otp) of one of the three modules
ResetPassword(module, email, password, c) ==
    /\ Idle
    /\ LET otp == CodeOfCase(email, c)
           out == reset_password(module, db, email, password, otp, NewSalt)
       IN  /\ db' = out.db
           /\ last' = [NoCall EXCEPT !.op = "reset_password",
                          !.role = module, !.email = email, !.otp = otp,
                          !.token = <<c>>,
                          !.password = password,
                          !.ok = verify_otp(email, otp),
                          !.again = [email |-> email, otp |-> otp]
                                       \in accepted,
                          !.raised = out.raised,
                          !.resp.status = out.status,
                          !.resp.body = out.body,
                          !.made_by_hash = (out.db # db)]
    /\ UNCHANGED <<now, advances, store, sessions, race, outbox, accepted,
                    users, build>>

\* change_password(identifier, current, new) of one of the three modules
ChangePassword(module, ident, current, new) ==
    /\ Idle
    /\ LET out == change_password(module, db, ident, current, new, NewSalt)
           known == \/ module = "student" /\ ident \in DOMAIN StudentsTable
                    \/ module = "admin" /\ ident \in DOMAIN AdminsTable
                    \/ module = "lecturer" /\ ident \in DOMAIN LecturersTable
           user_id == CASE module = "student" -> StudentsTable[ident]
                        [] module = "admin" -> AdminsTable[ident]
                        [] OTHER -> LecturersTable[ident]
       IN  /\ db' = out.db
           /\ last' = [NoCall EXCEPT !.op = "change_password",
                          !.role = module, !.user_id = ident,
                          !.password = current,
                          !.ok = known /\ current = db[user_id].plain,
                          !.raised = out.raised,
                          !.resp.status = out.status,
                          !.resp.body = out.body,
                          !.made_by_hash = (out.db # db)]
    /\ UNCHANGED <<now, advances, store, sessions, race, outbox, accepted,
                    users, build>>

NextCred ==
    \/ \E e \in Emails, smtp \in SmtpOutcomes : GenerateOtp(e, smtp)
    \/ \E m \in Modules, e \in Emails, c \in CodeCases : VerifyAccount(m, e, c)
    \/ \E m \in Modules, e \in Emails, p \in NewPasswords, c \in CodeCases :
          ResetPassword(m, e, p, c)
    \/ \E m \in Modules, i \in Identifiers, p \in Passwords,
          n \in NewPasswords : ChangePassword(m, i, p, n)
    \/ Return

SpecCred == InitCred /\ [][NextCred]_vars

\* ---------------------------------------------------------- the logins
\* generate_jwt(user_id, role) on store s at tick t
JwtResult(raised, token, s) == [raised |-> raised, token |-> token, store |-> s]

generate_jwt(s, user_id, role, store_ok, t) ==
    LET payload == [user_id |-> user_id, role |-> role, exp |-> ExpClaim(t)]
        token_str == jwt_encode(payload, SECRET_KEY)
    IN  IF store_ok
        THEN JwtResult(FALSE, token_str,
                       r_setex(s, token_str, StoreTTL, user_id, t))
        ELSE JwtResult(TRUE, <<>>, s)

\* what a login returns, and the store after it
LoginResult(status, body, token, s) ==
    [status |-> status, body |-> body, token |-> token, store |-> s]

\* variant: generate_jwt is called before the password is compared
login_student_TokenFirst(d, s, matric_no, password, store_ok, t) ==
    IF matric_no \notin DOMAIN StudentsTable
       \/ d[StudentsTable[matric_no]].is_suspended
    THEN LoginResult(401, "Invalid matric number or password", <<>>, s)
    ELSE LET user_id == StudentsTable[matric_no]
             j == generate_jwt(s, user_id, users[user_id], store_ok, t)
             check == verify_hash_password(password, d[user_id].password)
         IN  IF ~d[user_id].is_active
             THEN LoginResult(404, "User not found", <<>>, s)
             ELSE IF j.raised \/ check.raised
             THEN LoginResult(500, "internal server error", <<>>, j.store)
             ELSE IF ~check.value
             THEN LoginResult(401, "Invalid matric number or password",
                              <<>>, j.store)
             ELSE LoginResult(200, "Login successful", j.token, j.store)

\* variant: suspended students are found as well
login_student_Suspended(d, s, matric_no, password, store_ok, t) ==
    IF matric_no \notin DOMAIN StudentsTable
    THEN LoginResult(401, "Invalid matric number or password", <<>>, s)
    ELSE LET user_id == StudentsTable[matric_no]
             check == verify_hash_password(password, d[user_id].password)
             j == generate_jwt(s, user_id, users[user_id], store_ok, t)
         IN  IF ~d[user_id].is_active
             THEN LoginResult(404, "User not found", <<>>, s)
             ELSE IF check.raised
             THEN LoginResult(500, "internal server error", <<>>, s)
             ELSE IF ~check.value
             THEN LoginResult(401, "Invalid matric number or password",
                              <<>>, s)
             ELSE IF j.raised
             THEN LoginResult(500, "internal server error", <<>>, s)
             ELSE LoginResult(200, "Login successful", j.token, j.store)

\* login_student(matric_no, password): the student is looked up WHERE
\* is_suspended = FALSE, the user WHERE is_active = TRUE; the role put
\* into the token is users.role_name
login_student(d, s, matric_no, password, store_ok, t) ==
    IF matric_no \notin DOMAIN StudentsTable
       \/ d[StudentsTable[matric_no]].is_suspended
    THEN LoginResult(401, "Invalid matric number or password", <<>>, s)
    ELSE LET user_id == StudentsTable[matric_no]
             check == verify_hash_password(password, d[user_id].password)
             j == generate_jwt(s, user_id, users[user_id], store_ok, t)
         IN  IF ~d[user_id].is_active
             THEN LoginResult(404, "User not found", <<>>, s)
             ELSE IF check.raised
             THEN LoginResult(500, "internal server error", <<>>, s)
             ELSE IF ~check.value
             THEN LoginResult(401, "Invalid matric number or password",
                              <<>>, s)
             ELSE IF j.raised
             THEN LoginResult(500, "internal server error", <<>>, s)
             ELSE LoginResult(200, "Login successful", j.token, j.store)

\* lecturer_login(staff_id, password): the role is the literal "lecturer"
lecturer_login(d, s, staff_id, password, store_ok, t) ==
    IF staff_id \notin DOMAIN LecturersTable
    THEN LoginResult(404, "Invalid ID number or password", <<>>, s)
    ELSE LET user_id == LecturersTable[staff_id]
             check == verify_hash_password(password, d[user_id].password)
             j == generate_jwt(s, user_id, "lecturer", store_ok, t)
         IN  IF ~d[user_id].is_active
             THEN LoginResult(404, "User not found", <<>>, s)
             ELSE IF check.raised
             THEN LoginResult(500, "internal server error", <<>>, s)
             ELSE IF ~check.value
             THEN LoginResult(404, "Invalid ID number or password", <<>>, s)
             ELSE IF j.raised
             THEN LoginResult(500, "internal server error", <<>>, s)
             ELSE LoginResult(200, "welcome", j.token, j.store)

\* admin_login(admin_id, password): user.get("password") on the missing
\* row of a deactivated account raises inside the try and is answered 500;
\* the role is the literal "admin"
admin_login(d, s, admin_id, password, store_ok, t) ==
    IF admin_id \notin DOMAIN AdminsTable
    THEN LoginResult(404, "Invalid ID number or password", <<>>, s)
    ELSE LET user_id == AdminsTable[admin_id]
             check == verify_hash_password(password, d[user_id].password)
             j == generate_jwt(s, user_id, "admin", store_ok, t)
         IN  IF ~d[user_id].is_active
             THEN LoginResult(500, "internal server error", <<>>, s)
             ELSE IF check.raised
             THEN LoginResult(500, "internal server error", <<>>, s)
             ELSE IF ~check.value
             THEN LoginResult(403, "invalid password", <<>>, s)
             ELSE IF j.raised
             THEN LoginResult(500, "internal server error", <<>>, s)
             ELSE LoginResult(200, "welcome admin", j.token, j.store)

login(module, d, s, ident, password, store_ok, t) ==
    CASE module = "student" ->
             login_student(d, s, ident, password, store_ok, t)
      [] module = "admin" -> admin_login(d, s, ident, password, store_ok, t)
      [] OTHER -> lecturer_login(d, s, ident, password, store_ok, t)

\* variant: the sessions of the account are deleted from the store
account_change_store_Revokes(s, user_id) ==
    [k \in {t \in DOMAIN s : s[t].value # user_id} |-> s[k]]

\* the store after delete_user, suspend_student, change_password or
\* reset_password for an account: none of them calls r.delete
account_change_store(s, user_id) == s

\* delete_user(user_id): UPDATE users SET is_active = FALSE
delete_user(d, user_id) ==
    [u \in DOMAIN d |-> IF u = user_id
                        THEN [d[u] EXCEPT !.is_active = FALSE]
                        ELSE d[u]]

\* suspend_student(matric_no): UPDATE students SET is_suspended = TRUE
suspend_student(d, matric_no) ==
    [u \in DOMAIN d |->
        IF matric_no \in DOMAIN StudentsTable /\ StudentsTable[matric_no] = u
        THEN [d[u] EXCEPT !.is_suspended = TRUE]
        ELSE d[u]]

\* the account the identifier of a module stands for, "" if there is none
AccountOf(module, ident) ==
    CASE module = "student" /\ ident \in DOMAIN StudentsTable ->
             StudentsTable[ident]
      [] module = "admin" /\ ident \in DOMAIN AdminsTable ->
             AdminsTable[ident]
      [] module = "lecturer" /\ ident \in DOMAIN LecturersTable ->
             LecturersTable[ident]
      [] OTHER -> ""

LoginPasswords == {<<"p">>, <<"q">>}

InitLogin ==
    /\ now = 0
    /\ advances = 0
    /\ store = [k \in {} |-> [value |-> "", expire_at |-> 0]]
    /\ sessions = EmptyBag
    /\ last = NoCall
    /\ race = NoRace
    /\ outbox = {}
    /\ accepted = {}
    /\ users = UsersTable
    /\ db = SignedUp
    /\ build \in BcryptBuilds

\* login_student, lecturer_login or admin_login
Login(module, ident, password, store_ok) ==
    /\ Idle
    /\ BagCardinality(sessions) < MaxSessions
    /\ LET out == login(module, db, store, ident, password, store_ok, now)
       IN  /\ store' = out.store
           /\ sessions' =
                 IF out.status = 200
                 THEN sessions (+) SetToBag(
                          {[user_id |-> out.token[2].user_id,
                            role |-> out.token[2].role, token |-> out.token]})
                 ELSE sessions
           /\ last' = [NoCall EXCEPT !.op = "login", !.role = module,
                          !.user_id = AccountOf(module, ident),
                          !.password = password,
                          !.store_ok = store_ok,
                          !.token = out.token,
                          !.resp.status = out.status,
                          !.resp.body = out.body]
    /\ UNCHANGED <<now, advances, race, outbox, accepted, users, db, build>>

\* delete_user(user_id)
DeleteUser(user_id) ==
    /\ Idle
    /\ db' = delete_user(db, user_id)
    /\ store' = account_change_store(store, user_id)
    /\ last' = [NoCall EXCEPT !.op = "delete_user", !.user_id = user_id,
                              !.resp.status = 200]
    /\ UNCHANGED <<now, advances, sessions, race, outbox, accepted,
                    users, build>>

\* suspend_student(matric_no)
SuspendStudent(matric_no) ==
    /\ Idle
    /\ db' = suspend_student(db, matric_no)
    /\ store' = account_change_store(store, AccountOf("student", matric_no))
    /\ last' = [NoCall EXCEPT !.op = "suspend_student",
                              !.user_id = AccountOf("student", matric_no),
                              !.resp.status = 200]
    /\ UNCHANGED <<now, advances, sessions, race, outbox, accepted,
                    users, build>>

\* change_password with the new password "q"
ChangeToQ(module, ident, current) ==
    /\ Idle
    /\ LET out == change_password(module, db, ident, current, <<"q">>,
                                  NewSalt)
       IN  /\ db' = out.db
           /\ last' = [NoCall EXCEPT !.op = "change_password",
                          !.role = module,
                          !.user_id = AccountOf(module, ident),
                          !.password = current,
                          !.raised = out.raised,
                          !.resp.status = out.status,
                          !.resp.body = out.body,
                          !.made_by_hash = (out.db # db)]
    /\ store' = account_change_store(store, AccountOf(module, ident))
    /\ UNCHANGED <<now, advances, sessions, race, outbox, accepted,
                    users, build>>

NextLogin ==
    \/ \E m \in Modules, i \in Identifiers, p \in LoginPasswords,
          ok \in BOOLEAN : Login(m, i, p, ok)
    \/ \E a \in Accounts : DeleteUser(a.user_id)
    \/ \E i \in Identifiers : SuspendStudent(i)
    \/ \E m \in Modules, i \in Identifiers, p \in LoginPasswords :
          ChangeToQ(m, i, p)
    \/ Return

SpecLogin == InitLogin /\ [][NextLogin]_vars

\* ------------------------------- sessions next to account changes
\* the account with the address, "" if there is none
AccountOfEmail(email) ==
    IF \E u \in DOMAIN EmailOf : EmailOf[u] = email
    THEN CHOOSE u \in DOMAIN EmailOf : EmailOf[u] = email
    ELSE ""

\* reset_password with the new password "q"
ResetToQ(module, email, c) ==
    /\ Idle
    /\ LET otp == CodeOfCase(email, c)
           out == reset_password(module, db, email, <<"q">>, otp, NewSalt)
       IN  /\ db' = out.db
           /\ last' = [NoCall EXCEPT !.op = "reset_password",
                          !.role = module, !.email = email, !.otp = otp,
                          !.user_id = AccountOfEmail(email),
                          !.ok = verify_otp(email, otp),
                          !.raised = out.raised,
                          !.resp.status = out.status,
                          !.resp.body = out.body,
                          !.made_by_hash = (out.db # db)]
    /\ store' = account_change_store(store, AccountOfEmail(email))
    /\ UNCHANGED <<now, advances, sessions, race, outbox, accepted,
                    users, build>>

\* what a logout endpoint answers, and the store after it
RouteResult(gate, status, body, s) ==
    [gate |-> gate, status |-> status, body |-> body, store |-> s]

\* variant: the entry is deleted before the gate has decided
logout_user_DeletesFirst(required_role, header, get_ok, delete_ok, s) ==
    LET gate == wrapper(required_role, header, get_ok, FALSE)
    IN  IF gate.outcome # "proceed"
        THEN RouteResult(gate, gate.status, gate.body,
                         IF StartsWithBearer(header) /\ delete_ok
                         THEN r_delete(s, SplitToken(header)) ELSE s)
        ELSE IF ~delete_ok
        THEN RouteResult(gate, 500, "something went wrong", s)
        ELSE RouteResult(gate, 200, "logout successful",
                         r_delete(s, SplitToken(header)))

\* POST /logout of the students, lecturers and admin blueprints:
\* @role_required(required_role), then logout(header.split(" ")[1]);
\* the handler answers its own exceptions with 500
logout_user(required_role, header, get_ok, delete_ok, s) ==
    LET gate == wrapper(required_role, header, get_ok, FALSE)
    IN  IF gate.outcome # "proceed"
        THEN RouteResult(gate, gate.status, gate.body, s)
        ELSE IF HeaderFalsy(header) \/ ~StartsWithBearer(header)
        THEN RouteResult(gate, 401, "Token missing or invalid", s)
        ELSE IF ~delete_ok
        THEN RouteResult(gate, 500, "something went wrong", s)
        ELSE RouteResult(gate, 200, "logout successful",
                         r_delete(s, SplitToken(header)))

\* one request to POST /logout of the blueprint of required_role
LogoutRoute(required_role, header, get_ok, delete_ok) ==
    /\ Idle
    /\ LET out == logout_user(required_role, header, get_ok, delete_ok,
                              store)
       IN  /\ store' = out.store
           /\ last' = [NoCall EXCEPT !.op = "logout_route",
                          !.header = header,
                          !.required_role = required_role,
                          !.store_ok = get_ok,
                          !.resp = [out.gate EXCEPT !.status = out.status,
                                                    !.body = out.body],
                          !.again = /\ StartsWithBearer(header)
                                    /\ SplitToken(header) \in IssuedTokens
                                    /\ SplitToken(header) \notin DOMAIN store,
                          !.ok = out.gate.outcome = "proceed"]
    /\ UNCHANGED <<now, advances, sessions>>
    /\ UNCHANGED aux

InitSess ==
    /\ now = 0
    /\ advances = 0
    /\ \E S \in SUBSET Accounts :
          /\ store = StoreAfterLogins(S)
          /\ sessions = SetToBag({SessionAt(a, 0) : a \in S})
    /\ last = NoCall
    /\ race = NoRace
    /\ outbox = {}
    /\ accepted = {}
    /\ users = UsersTable
    /\ db = SignedUp
    /\ build = "truncates"

SessHeaders ==
    {NoHeader}
      \cup {ExactHeader(t) : t \in IssuedTokens}
      \cup {Header(<<"Bearer", t, <<"extra">>>>) : t \in IssuedTokens}

NextSess ==
    \/ \E a \in Accounts : DeleteUser(a.user_id)
    \/ \E i \in Identifiers : SuspendStudent(i)
    \/ \E m \in Modules, i \in Identifiers, p \in LoginPasswords :
          ChangeToQ(m, i, p)
    \/ \E m \in Modules, e \in Emails, c \in {"valid", "wrong"} :
          ResetToQ(m, e, c)
    \/ \E r \in Roles, h \in SessHeaders, ok \in BOOLEAN :
          Request(r, h, ok, FALSE)
    \/ \E r \in Roles, h \in SessHeaders, g \in BOOLEAN, d \in BOOLEAN :
          LogoutRoute(r, h, g, d)
    \/ Tick(StoreTTL * TicksPerSecond)
    \/ Return

SpecSess == InitSess /\ [][NextSess]_vars

\* ================================================================ claims
\* the three conditions of a usable token, read off the state
SigValid(token) == Len(token) = 3 /\ token[3] = HS256(SECRET_KEY, token[2])
ExpNotPassed(token) == Len(token) = 3 /\ now < token[2].exp * TicksPerSecond
StoreMatches(token) ==
    /\ Len(token) = 3
    /\ token \in DOMAIN store
    /\ store[token].value = token[2].user_id
Usable(token) == SigValid(token) /\ ExpNotPassed(token) /\ StoreMatches(token)

VerifyCalled == last.op \in {"verify", "request"} /\ last.resp.verify_calls = 1

\* C1: whenever verify_jwt returns a payload, the token's signature is
\* valid, its exp has not passed and the store holds the token with the
\* payload's user_id; when one of the three fails and verify_jwt returns,
\* it returns None.
C1_VerifyOnlyIfAllThree ==
    VerifyCalled =>
        LET v == last.resp.verified
            t == last.resp.token
        IN  /\ v.kind = "payload" => Usable(t) /\ v.payload = t[2]
            /\ (~Usable(t) /\ v.kind # "raise") => v.kind = "None"

C1_Witness ==
    /\ last.op = "verify"
    /\ last.resp.verified.kind = "payload"

C1_WitnessRejected ==
    /\ last.op = "verify"
    /\ last.resp.verified.kind = "None"
    /\ SigValid(last.resp.token)
    /\ ExpNotPassed(last.resp.token)

\* C2: once logout(token) has completed, verify_jwt(token) returns None and
\* the gate answers 401 to a request carrying the token, for every required
\* role, although the token's exp has not been reached.
C2_RevokedIsUnauthorized ==
    (last.op = "logout" /\ ~last.raised) =>
        /\ verify_jwt(last.token, TRUE).kind = "None"
        /\ \A r \in Roles, f \in BOOLEAN :
              LET a == wrapper(r, ExactHeader(last.token), TRUE, f)
              IN  a.outcome = "Unauthorized" /\ a.status = 401 /\ ~a.executed

\* the token logged out was issued, is signed, its exp and the TTL of the
\* entry written for it have not been reached
C2_Witness ==
    /\ last.op = "logout"
    /\ ~last.raised
    /\ last.token \in IssuedTokens
    /\ ExpNotPassed(last.token)
    /\ now < (last.token[2].exp - TokenLifetime + StoreTTL) * TicksPerSecond

\* C3: the wrapped operation runs only for a request whose token verifies
\* and carries the required role, it is handed that role, and the token
\* was issued by generate_jwt with that role.
C3_ExecutesOnlyWithRole ==
    (last.op = "request" /\ last.resp.executed) =>
        LET v == last.resp.verified IN
        /\ v.kind = "payload"
        /\ Usable(last.resp.token)
        /\ v.payload.role = last.required_role
        /\ last.resp.role_arg = v.payload.role
        /\ \E s \in BagToSet(sessions) :
              s.token = last.resp.token /\ s.role = last.required_role

C3_Witness ==
    /\ last.op = "request"
    /\ last.resp.executed
    /\ last.resp.outcome = "proceed"

\* C4: once an issued token string has stopped verifying (it was revoked or
\* has expired), no later call makes verify_jwt return a payload for it.
C4_DeadStaysDead ==
    [][\A t \in IssuedTokens :
          verify_jwt(t, TRUE).kind # "payload"
              => (verify_jwt(t, TRUE).kind # "payload")']_vars

\* C5: two generate_jwt calls give two independently revocable sessions:
\* the logout of one session leaves every other session verifying, also
\* when both were issued for the same user_id and role in one second.
C5_SessionsIndependent ==
    [][(last'.op = "logout" /\ ~last'.raised) =>
          \A s \in BagToSet(sessions) :
              ( /\ (s.token # last'.token \/ CopiesIn(s, sessions) >= 2)
                /\ verify_jwt(s.token, TRUE).kind = "payload" )
                  => (verify_jwt(s.token, TRUE).kind = "payload")']_vars

\* C6: generate_jwt(user_id, role) followed by verify_jwt of the returned
\* token, while the store entry is there, returns a payload with that
\* user_id and role.
C6_RoundTrip ==
    /\ (last.op = "generate" /\ ~last.raised) =>
          LET v == verify_jwt(last.token, TRUE) IN
          /\ v.kind = "payload"
          /\ v.payload.user_id = last.user_id
          /\ v.payload.role = last.role
    /\ \A s \in BagToSet(sessions) :
          s.token \in DOMAIN store =>
              LET v == verify_jwt(s.token, TRUE) IN
              /\ v.kind = "payload"
              /\ v.payload.user_id = s.user_id
              /\ v.payload.role = s.role

C6_Witness ==
    /\ last.op = "verify"
    /\ last.resp.verified.kind = "payload"
    /\ \E s \in BagToSet(sessions) :
          /\ s.token = last.resp.token
          /\ s.user_id = last.resp.verified.payload.user_id
          /\ s.role = last.resp.verified.payload.role

\* C7: the gate answers Forbidden (403, "Access denied") exactly when the
\* token verifies and its role differs from the required one; a token that
\* does not verify gets Unauthorized (401), never Forbidden.
C7_ForbiddenIffRoleMismatch ==
    last.op = "request" =>
        LET a == last.resp
            v == last.resp.verified
        IN  /\ a.outcome = "Forbidden" <=>
                  (v.kind = "payload" /\ v.payload.role # last.required_role)
            /\ a.outcome = "Forbidden" <=> a.status = 403
            /\ a.outcome = "Forbidden" <=> a.body = "Access denied"
            /\ v.kind = "None" => a.outcome = "Unauthorized" /\ a.status = 401

C7_Witness ==
    /\ last.op = "request"
    /\ last.resp.outcome = "Forbidden"

C7_WitnessUnauthorized ==
    /\ last.op = "request"
    /\ last.resp.outcome = "Unauthorized"
    /\ last.resp.verified.kind = "None"
    /\ Len(last.resp.token) = 3
    /\ last.resp.token[2].role # last.required_role

\* C8: a request without an Authorization header, or with one that does
\* not begin with "Bearer ", is answered 401 without a call of verify_jwt
\* and without a read of the store.
NoBearerPrefix(header) ==
    \/ ~header.present
    \/ Len(header.parts) < 2
    \/ header.parts[1] # "Bearer"

C8_NoHeaderNoVerify ==
    (last.op = "request" /\ NoBearerPrefix(last.header)) =>
        /\ last.resp.outcome = "Unauthorized"
        /\ last.resp.status = 401
        /\ last.resp.verify_calls = 0
        /\ last.resp.verified.store_reads = 0

C8_Witness ==
    /\ last.op = "request"
    /\ ~last.header.present
    /\ last.resp.status = 401

\* C9: every header that is not exactly "Bearer <token>" with one
\* non-empty token and nothing after it is answered 401 before verify_jwt
\* is called, and never reaches the wrapped operation.
ExactShape(header) ==
    /\ header.present
    /\ Len(header.parts) = 2
    /\ header.parts[1] = "Bearer"
    /\ header.parts[2] # <<>>

C9_OnlyExactShape ==
    (last.op = "request" /\ ~ExactShape(last.header)) =>
        /\ last.resp.outcome = "Unauthorized"
        /\ last.resp.verify_calls = 0
        /\ ~last.resp.executed

\* C10: every call of a gated operation returns proceed(role), 401, 403 or
\* the InternalError answer (500); an exception inside the gate gives the
\* InternalError answer.
C10_FourOutcomes ==
    last.op = "request" =>
        /\ last.resp.outcome \in
              {"proceed", "Unauthorized", "Forbidden", "InternalError"}
        /\ last.resp.verified.kind = "raise" =>
              last.resp.outcome = "InternalError" /\ last.resp.status = 500

\* C11: no exception leaves the gate wrapper: for every header, token,
\* store answer and wrapped operation the wrapper returns a value.
C11_WrapperReturns ==
    last.op = "request" =>
        last.resp.outcome \in {"proceed", "Unauthorized", "Forbidden", "None"}

\* an exception was raised inside the wrapper and a value came back
C11_Witness ==
    /\ last.op = "request"
    /\ last.resp.verified.kind = "raise"
    /\ last.resp.outcome = "None"

C11_WitnessFuncRaised ==
    /\ last.op = "request"
    /\ last.resp.executed
    /\ last.resp.outcome = "None"

\* C12 as claimed: verify_jwt returns None and never raises, also for a
\* well-formed token whose store lookup fails.
C12_NeverRaises ==
    VerifyCalled => last.resp.verified.kind # "raise"

\* C12 as amended: a token with a bad signature, a malformed one and an
\* expired one all give the same None, without a store read; verify_jwt
\* raises only when the token decodes and the store command fails.
C12_RaisesOnlyOnStoreFailure ==
    VerifyCalled =>
        LET v == last.resp.verified
            t == last.resp.token
        IN  /\ (~SigValid(t) \/ ~ExpNotPassed(t))
                  => v = VerifyResult("None", NoPayload, 0)
            /\ v.kind = "raise"
                  => SigValid(t) /\ ExpNotPassed(t) /\ v.store_reads = 1

\* an issued token, past its exp, is answered None
C12_Witness ==
    /\ last.op = "verify"
    /\ last.resp.token \in IssuedTokens
    /\ ~ExpNotPassed(last.resp.token)
    /\ last.resp.verified.kind = "None"

\* the second of the clock in which generate_jwt issued the token
IssueSecond(token) == token[2].exp - TokenLifetime

\* the first tick at which the entry written in that second is gone
StoreDeadline(token) == (IssueSecond(token) + 1 + StoreTTL) * TicksPerSecond

\* C13: a token verifies only within StoreTTL seconds of the write of its
\* store entry, and never after its exp; once the TTL has run out it is
\* answered None although exp has not passed.
C13_StoreTTLBoundsSession ==
    \A t \in IssuedTokens :
        LET v == verify_jwt(t, TRUE) IN
        /\ v.kind = "payload" => now < StoreDeadline(t)
        /\ v.kind = "payload" => now < t[2].exp * TicksPerSecond
        /\ now >= StoreDeadline(t) => v.kind = "None"
        /\ StoreDeadline(t) < t[2].exp * TicksPerSecond

C13_Witness ==
    /\ last.op = "verify"
    /\ last.resp.token \in IssuedTokens
    /\ now >= StoreDeadline(last.resp.token)
    /\ ExpNotPassed(last.resp.token)
    /\ last.resp.verified.kind = "None"

\* C14: a completed logout(token) removes the entry of token and nothing
\* else, also when there is no such entry, and a second logout(token)
\* leaves the store as the first one left it.
C14_LogoutIdempotent ==
    [][(last'.op = "logout" /\ ~last'.raised) =>
          /\ DOMAIN store' = (DOMAIN store) \ {last'.token}
          /\ \A k \in DOMAIN store' : store'[k] = store[k]
          /\ r_delete(store', last'.token) = store']_vars

\* a logout of a token that has no entry, next to entries of other tokens
C14_Witness ==
    /\ last.op = "logout"
    /\ ~last.raised
    /\ last.token \notin IssuedTokens
    /\ DOMAIN store # {}

\* C17: verify_jwt, called on its own or by the gate, leaves the store as
\* it was: no entry is created, deleted or rewritten, no TTL is extended.
C17_VerifyLeavesStore ==
    [][last'.op \in {"verify", "request"} => store' = store]_vars

\* a token verified some time after its entry was written
C17_Witness ==
    /\ last.op = "request"
    /\ last.resp.verified.kind = "payload"
    /\ now > 0
    /\ store[last.resp.token].expire_at < now + StoreTTL * TicksPerSecond

\* C15: however a verify_jwt(token) and a logout(token) of another request
\* interleave, a verify whose store command is answered returns the whole
\* payload (its read came before the delete) or None, and a verify whose
\* read follows the completed delete returns None.
C15_VerifyLogoutRace ==
    race.pc = "done" =>
        LET v == race.result IN
        /\ race.store_ok => v.kind \in {"payload", "None"}
        /\ v.kind = "payload" =>
              v.payload = race.token[2] /\ ~race.read_after_delete
        /\ (race.read_after_delete /\ race.store_ok) =>
              v = VerifyResult("None", NoPayload, 1)

\* the delete fell between the jwt.decode and the r.get of the verify
C15_Witness ==
    /\ race.pc = "done"
    /\ race.deleted_in_flight
    /\ race.read_after_delete
    /\ race.store_ok
    /\ race.result.kind = "None"

C15_WitnessReadFirst ==
    /\ race.pc = "done"
    /\ race.result.kind = "payload"
    /\ race.token \notin DOMAIN store

\* the codes of an address for the windows around the current one
CodeAt(email, i) == TotpAt(UserSecret(general_secret, email), now, i)

\* C18 as claimed: verify_otp(email, code) in window w is true exactly for
\* the codes of (email, w) and (email, w-1); the code of w+1 is rejected.
C18_CurrentOrPrevious ==
    last.op = "verify_otp" =>
        (last.ok <=> last.otp \in {CodeAt(last.email, 0),
                                   CodeAt(last.email, -1)})

\* C18 as amended: verify_otp(email, code) in window w is true exactly for
\* the codes of (email, w-1), (email, w) and (email, w+1); the codes of
\* w-2 and w+2 are rejected.
C18_OneWindowEitherSide ==
    last.op = "verify_otp" =>
        /\ last.ok <=> last.otp \in {CodeAt(last.email, -1),
                                     CodeAt(last.email, 0),
                                     CodeAt(last.email, 1)}
        /\ last.otp \in {CodeAt(last.email, -2), CodeAt(last.email, 2)}
              => ~last.ok

\* the code of the following window is accepted
C18_Witness ==
    /\ last.op = "verify_otp"
    /\ last.otp = CodeAt(last.email, 1)
    /\ last.ok

\* C19: the code generate_otp mailed in window w is accepted by verify_otp
\* in window w and in window w+1 and rejected from window w+2 on.
C19_MailedCodeLifetime ==
    /\ \A m \in outbox :
          /\ Timecode(now) - m.window \in {0, 1} => verify_otp(m.email, m.otp)
          /\ Timecode(now) - m.window >= 2 => ~verify_otp(m.email, m.otp)
    /\ \A m \in outbox :
          (last.op = "verify_otp" /\ last.email = m.email /\ last.otp = m.otp)
              => (last.ok <=> Timecode(now) - m.window \in {0, 1})

\* a mailed code submitted one window later and accepted
C19_Witness ==
    /\ last.op = "verify_otp"
    /\ last.ok
    /\ \E m \in outbox :
          /\ m.email = last.email
          /\ m.otp = last.otp
          /\ Timecode(now) = m.window + 1

C19_WitnessRejected ==
    /\ last.op = "verify_otp"
    /\ ~last.ok
    /\ \E m \in outbox :
          /\ m.email = last.email
          /\ m.otp = last.otp
          /\ Timecode(now) = m.window + 2

\* C20: a pair (email, code) that verify_otp has accepted is accepted again
\* by every call made in the window of the code or in the window after it.
C20_AcceptedAgain ==
    /\ \A a \in accepted :
          Timecode(now) - a.otp[2] \in {0, 1} => verify_otp(a.email, a.otp)
    /\ (last.op = "verify_otp" /\ last.again
           /\ Timecode(now) - last.otp[2] \in {0, 1}) => last.ok

\* an accepted pair is submitted once more and accepted
C20_Witness ==
    /\ last.op = "verify_otp"
    /\ last.ok
    /\ last.again
    /\ \E m \in outbox : m.email = last.email /\ m.otp = last.otp

\* C16: the answer of the gate to a request is the one it gives under
\* every content of users.role_name; a verified token whose role is the
\* required one is admitted and its role handed on, any other verified
\* token gets 403, whatever the table records for its user.
C16_TokenRoleOnly ==
    last.op = "gate_request" =>
        /\ \A table \in [DOMAIN users -> Roles] :
              role_required(last.required_role, last.header, last.store_ok,
                            last.func_raises, table) = last.resp
        /\ last.resp.verified.kind = "payload" =>
              /\ (last.resp.outcome = "Forbidden")
                    <=> (last.resp.verified.payload.role # last.required_role)
              /\ last.resp.executed
                    => last.resp.role_arg = last.resp.verified.payload.role

\* admitted with the token's role although the table records another one
C16_Witness ==
    /\ last.op = "gate_request"
    /\ last.resp.outcome = "proceed"
    /\ users[last.resp.verified.payload.user_id]
          # last.resp.verified.payload.role

\* refused although the table records the required role
C16_WitnessForbidden ==
    /\ last.op = "gate_request"
    /\ last.resp.outcome = "Forbidden"
    /\ users[last.resp.verified.payload.user_id] = last.required_role

\* C21: generate_otp tries the mail server exactly once; when the server
\* does not take the mail the call raises: it returns no 'email sent'
\* answer and nothing is delivered.
C21_SingleAttempt ==
    last.op = "generate_otp" =>
        /\ last.attempts = 1
        /\ ~last.smtp_ok =>
              /\ last.raised
              /\ last.resp.status # 200
              /\ last.resp.body # "email sent, check your mail for otp"
              /\ ~last.ok
        /\ last.smtp_ok =>
              /\ ~last.raised
              /\ last.resp.status = 200
              /\ \E m \in outbox : m.email = last.email /\ m.otp = last.otp

\* a call made while the mail server is unreachable
C21_Witness ==
    /\ last.op = "generate_otp"
    /\ ~last.smtp_ok
    /\ last.raised

\* C23 as claimed: hash_password(s) returns a digest for every secret s;
\* verify_hash_password(t, hash_password(s)) is true when t = s and false
\* for every other secret t.
C23_VerifyIffSameSecret ==
    /\ last.op = "hash_password" => ~last.raised
    /\ (last.op = "verify_hash_password" /\ last.made_by_hash) =>
          /\ ~last.raised
          /\ last.ok <=> (last.password = last.secret)

\* what holds instead: the comparison is one of the first 72 bytes
C23_FirstBytesOnly ==
    (last.op = "verify_hash_password" /\ last.made_by_hash /\ ~last.raised)
        => (last.ok <=> (Truncate(last.password) = Truncate(last.secret)))

C23_Witness ==
    /\ last.op = "verify_hash_password"
    /\ last.made_by_hash
    /\ last.ok
    /\ last.password # last.secret

\* C24 as claimed: verify_hash_password returns false and does not raise
\* for every digest that hash_password did not produce.
C24_MalformedGivesFalse ==
    (last.op = "verify_hash_password" /\ ~last.made_by_hash) =>
        /\ ~last.raised
        /\ ~last.ok

\* what holds instead: it raises exactly when the salt part is damaged or
\* the password is one bcrypt refuses, and is false otherwise
C24_RaisesOnBadSalt ==
    (last.op = "verify_hash_password" /\ ~last.made_by_hash) =>
        /\ ~last.ok
        /\ last.raised <=>
              \/ ~last.digest.salt_ok
              \/ (Len(last.password) > BcryptMaxBytes /\ build = "rejects")

C24_Witness ==
    /\ last.op = "verify_hash_password"
    /\ ~last.made_by_hash
    /\ last.raised
    /\ ~last.digest.salt_ok

CodeFailureBody == "verification unsuccessful, check your otp"

\* C22: verify_account and reset_password answer a failed code check with
\* 401 and 'verification unsuccessful, check your otp', the same for an
\* expired code, a code of another address and a wrong code.
C22_OneFailureAnswer ==
    (last.op \in {"verify_account", "reset_password"}
       /\ ~last.raised /\ ~last.ok) =>
        /\ last.resp.status = 401
        /\ last.resp.body = CodeFailureBody
        /\ \A m \in Modules, c \in CodeCases \ {"valid"} :
              /\ verify_account(m, db, last.email,
                                CodeOfCase(last.email, c)).status = 401
              /\ verify_account(m, db, last.email,
                                CodeOfCase(last.email, c)).body
                    = last.resp.body

\* an expired code is refused
C22_Witness ==
    /\ last.op = "verify_account"
    /\ last.token = <<"expired">>
    /\ last.resp.status = 401

C22_WitnessOtherAddress ==
    /\ last.op = "reset_password"
    /\ last.token = <<"other_address">>
    /\ last.resp.status = 401

C22_WitnessWrong ==
    /\ last.op = "reset_password"
    /\ last.token = <<"wrong">>
    /\ last.resp.status = 401

\* C29: in every module verify_account and reset_password accept the same
\* (email, code) pairs; a pair verify_account has accepted is accepted by
\* reset_password while verify_otp still takes the code.
C29_SameCodesBothPurposes ==
    /\ \A m \in Modules, e \in Emails, c \in CodeCases :
          LET taken == verify_otp(e, CodeOfCase(e, c))
          IN  /\ (verify_account(m, db, e, CodeOfCase(e, c)).status = 200)
                    <=> taken
              /\ (reset_password(m, db, e, <<"q">>, CodeOfCase(e, c),
                                 NewSalt).status = 200) <=> taken
    /\ (last.op = "reset_password" /\ last.again /\ last.ok
          /\ ~last.raised) => last.resp.status = 200

\* a mailed code that verified an account also resets the password
C29_Witness ==
    /\ last.op = "reset_password"
    /\ last.again
    /\ last.resp.status = 200
    /\ \E m \in outbox : m.email = last.email /\ m.otp = last.otp

\* C30 as claimed: reset_password with a code verify_otp rejects and
\* change_password with a wrong current password or an unknown identifier
\* return an error and leave every stored digest as it was.
C30_FailedReplacementKeepsDigests ==
    [][(last'.op \in {"reset_password", "change_password"} /\ ~last'.ok)
          => /\ db' = db
             /\ last'.raised \/ last'.resp.body \notin
                   {"password reset successful",
                    "Password changed successfully",
                    "Password updated successfully"}]_vars

\* what holds instead: a digest is replaced only after verify_otp or
\* verify_hash_password has returned true
C30_ReplacedOnlyAfterCheck ==
    [][(last'.op = "reset_password" /\ db' # db => last'.ok)
       /\ (last'.op = "change_password" /\ db' # db =>
             \E u \in DOMAIN db :
                 /\ db'[u] # db[u]
                 /\ verify_hash_password(last'.password,
                                         db[u].password).value)]_vars

\* a password other than the stored one replaces it
C30_Witness ==
    /\ last.op = "change_password"
    /\ ~last.ok
    /\ last.made_by_hash

\* C25: a login writes a store entry and returns a token only when the
\* account was found, is active, (for a student) is not suspended, and
\* verify_hash_password returned true; every other login returns no token
\* and leaves the store as it was.
C25_StoreWrittenOnlyAfterCheck ==
    [][last'.op = "login" =>
         LET u == last'.user_id
             passed == /\ u # ""
                       /\ db[u].is_active
                       /\ (last'.role = "student" => ~db[u].is_suspended)
                       /\ ~verify_hash_password(last'.password,
                                                db[u].password).raised
                       /\ verify_hash_password(last'.password,
                                               db[u].password).value
         IN  /\ (store' # store \/ last'.token # <<>>
                   \/ last'.resp.status = 200) => passed
             /\ last'.resp.status # 200 =>
                   /\ store' = store
                   /\ last'.token = <<>>
             /\ (passed /\ last'.store_ok) =>
                   /\ last'.resp.status = 200
                   /\ r_has(store', last'.token)]_vars

\* a login with the right password, and the refusals
C25_Witness ==
    /\ last.op = "login"
    /\ last.resp.status = 200
    /\ last.token \in DOMAIN store

C25_WitnessSuspended ==
    /\ last.op = "login"
    /\ last.user_id # ""
    /\ db[last.user_id].is_suspended
    /\ db[last.user_id].is_active
    /\ last.role = "student"
    /\ verify_hash_password(last.password, db[last.user_id].password).value
    /\ last.resp.status = 401

C25_WitnessInactive ==
    /\ last.op = "login"
    /\ last.user_id # ""
    /\ ~db[last.user_id].is_active
    /\ last.resp.status # 200

AccountChanges ==
    {"delete_user", "suspend_student", "change_password", "reset_password"}

\* C26: delete_user, suspend_student, change_password and reset_password
\* leave the store as it was; every issued token that verified before the
\* call verifies after it and gets the same answer from every role gate.
C26_AccountChangesKeepSessions ==
    [][last'.op \in AccountChanges =>
          /\ store' = store
          /\ \A t \in IssuedTokens :
                /\ Usable(t) => Usable(t)'
                /\ \A r \in Roles :
                      wrapper(r, ExactHeader(t), TRUE, FALSE)'
                         = wrapper(r, ExactHeader(t), TRUE, FALSE)]_vars

\* the token of a deactivated account whose password was replaced is
\* admitted by its role gate
C26_Witness ==
    /\ last.op = "request"
    /\ last.resp.outcome = "proceed"
    /\ ~db[last.resp.verified.payload.user_id].is_active
    /\ db[last.resp.verified.payload.user_id].plain = <<"q">>

C26_WitnessSuspended ==
    /\ last.op = "request"
    /\ last.resp.outcome = "proceed"
    /\ db[last.resp.verified.payload.user_id].is_suspended

\* C28: a logout endpoint changes the store only for a request its gate
\* admitted, by deleting the entry of the verified token of the route's
\* role; a request on another role's route is answered 403 and the entry
\* stays; a request with a token whose entry is gone is answered 401 when
\* the store answers.
C28_LogoutOnlyWhenAdmitted ==
    [][last'.op = "logout_route" =>
          /\ store' # store =>
                /\ last'.ok
                /\ Usable(SplitToken(last'.header))
                /\ SplitToken(last'.header)[2].role = last'.required_role
                /\ store' = r_delete(store, SplitToken(last'.header))
                /\ last'.resp.status = 200
          /\ last'.resp.outcome = "Forbidden" =>
                /\ last'.resp.status = 403
                /\ store' = store
                /\ SplitToken(last'.header) \in DOMAIN store'
          /\ (last'.again /\ last'.store_ok) =>
                /\ last'.resp.status = 401
                /\ store' = store]_vars

\* the second logout with a token: its entry was deleted by the first
C28_Witness ==
    /\ last.op = "logout_route"
    /\ last.again
    /\ now = 0
    /\ last.resp.status = 401
    /\ SplitToken(last.header)[2].role = last.required_role

C28_WitnessOtherRoute ==
    /\ last.op = "logout_route"
    /\ last.resp.status = 403
    /\ SplitToken(last.header) \in DOMAIN store

\* C27: the answer of the gate of GET /dashboard/<matric_no> is the one
\* wrapper gives for the header, the role "student" and the store, and is
\* the same for every matric_no in the path; an admitted request is
\* served the row of the matric_no it names, whoever the token names.
C27_GateIgnoresAddressee ==
    last.op = "dashboard" =>
        /\ last.resp = wrapper("student", last.header, last.store_ok, FALSE)
        /\ \A m \in PathValues :
              dashboard(last.header, m, last.store_ok).gate = last.resp
        /\ (last.resp.outcome = "proceed"
              /\ last.path \in DOMAIN DashboardRows) =>
                 /\ last.route_status = 200
                 /\ last.served = DashboardRows[last.path]

\* the token of one student is served the row of another
C27_Witness ==
    /\ last.op = "dashboard"
    /\ last.resp.outcome = "proceed"
    /\ last.route_status = 200
    /\ last.served # last.resp.verified.payload.user_id

====
